---- MODULE Spec2Model ----
(***************************************************************************)
(* A model of Task_2/steam_script.py: the monitor loop that infers the     *)
(* state of a Steam download from the on-disk footprint, and the pure      *)
(* helpers it is built from (library discovery, manifest lookup, candidate *)
(* detection, log hint).                                                   *)
(*                                                                         *)
(* Conventions.                                                            *)
(*  - Text is a sequence of one-character strings; a path is a sequence of *)
(*    tokens in which "\\" is the separator.                               *)
(*  - Python's None is <<>> and a present value x is <<x>> for numbers;    *)
(*    for the log hint, which is a string, None is "none".                 *)
(*  - Wall-clock time is counted in microseconds, so that the 1e-6 floor   *)
(*    of the elapsed time is the integer 1.  A speed is the exact rational *)
(*    num/den in bytes per second.                                         *)
(*  - The tree under an in-progress directory is abstracted to the byte    *)
(*    total of its regular files (the value folder_size_bytes returns).    *)
(***************************************************************************)
EXTENDS Integers, Sequences, FiniteSets, TLC

VARIABLES
    \* ---- the file system the script observes
    downloading,        \* steamapps path -> the "downloading" directory under it
    manifests,          \* steamapps path -> appid -> lines of appmanifest_<appid>.acf
    logfile,            \* <steam>/logs/content_log.txt
    dirs,               \* the canonical paths that are directories
    links,              \* symbolic links: path -> target path
    vdf,                \* <steam>/steamapps/libraryfolders.vdf
    host,               \* sys.platform, the registry and the environment
    clock,              \* time.time(), microseconds
    interval_seconds,   \* the parameter of line 297, microseconds
    \* ---- monitor_steam_downloads
    steamapps_folders,  \* line 304
    last_size,          \* line 315
    last_appid,         \* line 316
    last_time,          \* line 317
    zero_streak,        \* line 320
    minute_idx,         \* iterations of the loop at line 322 completed so far
    out,                \* what the last iteration printed, with the iteration's locals
    \* ---- a single call of a helper (the specifications of the pure functions)
    call,               \* the function applied and its arguments
    ret                 \* what it returned

vars == <<downloading, manifests, logfile, dirs, links, vdf, host, clock, interval_seconds,
          steamapps_folders,
          last_size, last_appid, last_time, zero_streak, minute_idx, out,
          call, ret>>

fsVars == <<downloading, manifests, logfile, dirs, links, vdf, host>>
loopVars == <<last_size, last_appid, last_time, zero_streak, minute_idx, out>>
callVars == <<call, ret>>

----------------------------------------------------------------------------
\* Python values

None == <<>>

Some(x) == <<x>>

\* the host is of no account where find_steam_path is not called
NoHost == [platform |-> "none"]

Max(a, b) == IF a >= b THEN a ELSE b

Abs(x) == IF x < 0 THEN -x ELSE x

Range(s) == {s[i] : i \in DOMAIN s}

\* sub in s, for str
Contains(s, sub) ==
    \E i \in 0..(Len(s) - Len(sub)) : SubSeq(s, i + 1, i + Len(sub)) = sub

Digits == <<"0", "1", "2", "3", "4", "5", "6", "7", "8", "9">>

Uppercase == <<"A", "B", "C", "D", "E", "F", "G", "H", "I", "J", "K", "L", "M",
               "N", "O", "P", "Q", "R", "S", "T", "U", "V", "W", "X", "Y", "Z">>

Lowercase == <<"a", "b", "c", "d", "e", "f", "g", "h", "i", "j", "k", "l", "m",
               "n", "o", "p", "q", "r", "s", "t", "u", "v", "w", "x", "y", "z">>

\* str.isdigit (ASCII text)
isdigit(s) == Len(s) > 0 /\ \A i \in DOMAIN s : s[i] \in Range(Digits)

DigitVal(c) == (CHOOSE i \in DOMAIN Digits : Digits[i] = c) - 1

\* int(s) of a string of digits: leading zeros are dropped
RECURSIVE int(_)
int(s) == IF Len(s) = 0 THEN 0
          ELSE 10 * int(SubSeq(s, 1, Len(s) - 1)) + DigitVal(s[Len(s)])

\* str(n) of a non-negative integer
RECURSIVE str(_)
str(n) == IF n < 10 THEN <<Digits[n + 1]>>
          ELSE str(n \div 10) \o <<Digits[(n % 10) + 1]>>

lowerChar(c) ==
    IF c \in Range(Uppercase)
    THEN Lowercase[CHOOSE i \in DOMAIN Uppercase : Uppercase[i] = c]
    ELSE c

\* str.lower
lower(s) == [i \in DOMAIN s |-> lowerChar(s[i])]

----------------------------------------------------------------------------
\* Paths

Sep == "\\"

\* os.path.join(p, name)
join(p, name) == p \o <<Sep, name>>

----------------------------------------------------------------------------
\* The "downloading" directory of a library: whether it exists, and its
\* children by name.  A child is a directory or not, and its stat either
\* gives a modification time, <<t>>, or raises, <<>>; size is the byte total
\* of the regular files under it.

NoDownloading == [exists |-> FALSE, entries |-> <<>>]

\* os.scandir(d): the children, in the order the system enumerates them
scandir(d, order) == SelectSeq(order, LAMBDA n : n \in DOMAIN d.entries)

\* lines 252-255: the modification time, 0.0 when stat raises
entry_mtime(e) == IF e.stat = None THEN 0 ELSE e.stat[1]

\* a slip: a child whose stat raises is skipped
RECURSIVE scan_candidates_skip_failed(_, _)
scan_candidates_skip_failed(d, names) ==
    IF names = <<>> THEN <<>>
    ELSE LET n == Head(names)
             e == d.entries[n]
         IN  (IF e.kind = "dir" /\ isdigit(n) /\ e.stat # None
              THEN << <<entry_mtime(e), int(n)>> >>
              ELSE <<>>)
             \o scan_candidates_skip_failed(d, Tail(names))

\* lines 249-256: the (mtime, appid) pairs one listing contributes
RECURSIVE scan_candidates(_, _)
scan_candidates(d, names) ==
    IF names = <<>> THEN <<>>
    ELSE LET n == Head(names)
             e == d.entries[n]
         IN  (IF e.kind = "dir" /\ isdigit(n)
              THEN << <<entry_mtime(e), int(n)>> >>
              ELSE <<>>)
             \o scan_candidates(d, Tail(names))

\* lines 243-258: the candidates of every library, in library order
RECURSIVE collect_candidates(_, _, _)
collect_candidates(folders, dl, order) ==
    IF folders = <<>> THEN <<>>
    ELSE LET d == dl[Head(folders)]
         IN  (IF d.exists THEN scan_candidates(d, scandir(d, order)) ELSE <<>>)
             \o collect_candidates(Tail(folders), dl, order)

\* a slip: only the modification times are compared
pair_less_mtime_only(a, b) == a[1] < b[1]

\* the order of Python tuples (mtime, appid)
pair_less(a, b) == a[1] < b[1] \/ (a[1] = b[1] /\ a[2] < b[2])

\* insertion into a sequence sorted in descending order
RECURSIVE insert_desc(_, _)
insert_desc(x, s) ==
    IF s = <<>> THEN <<x>>
    ELSE IF pair_less(Head(s), x) THEN <<x>> \o s
    ELSE <<Head(s)>> \o insert_desc(x, Tail(s))

\* line 263: candidates.sort(reverse=True)
RECURSIVE sort_reverse(_)
sort_reverse(s) == IF s = <<>> THEN <<>> ELSE insert_desc(Head(s), sort_reverse(Tail(s)))

\* a slip: the candidate scanned last wins
pick_candidate_last(candidates) ==
    IF candidates = <<>> THEN None ELSE Some(candidates[Len(candidates)][2])

\* lines 260-264
pick_candidate(candidates) ==
    IF candidates = <<>> THEN None ELSE Some(sort_reverse(candidates)[1][2])

\* lines 240-264
detect_appid_from_downloading_dir(folders, dl, order) ==
    pick_candidate(collect_candidates(folders, dl, order))

\* lines 267-272: the first library holding downloading/<appid>, as <<library>>
RECURSIVE get_downloading_folder(_, _, _)
get_downloading_folder(folders, dl, appid) ==
    IF folders = <<>> THEN None
    ELSE LET d == dl[Head(folders)]
         IN  IF /\ d.exists
                /\ str(appid) \in DOMAIN d.entries
                /\ d.entries[str(appid)].kind \in {"dir", "linkdir"}
             THEN Some(Head(folders))
             ELSE get_downloading_folder(Tail(folders), dl, appid)

\* lines 40-61
folder_size_bytes(dl, sa, appid) == dl[sa].entries[str(appid)].size

----------------------------------------------------------------------------
\* The content log: whether the file exists, and its lines (oldest first).

MaxBytes == 200000

LogTailLines == 800

NoLog == [exists |-> FALSE, lines |-> <<>>]

\* the characters of the lines, a line break after each; the lines are
\* summed by halves
RECURSIVE text_length(_)
text_length(lines) ==
    IF lines = <<>> THEN 0
    ELSE IF Len(lines) = 1 THEN Len(lines[1]) + 1
    ELSE LET half == Len(lines) \div 2
         IN  text_length(SubSeq(lines, 1, half))
             + text_length(SubSeq(lines, half + 1, Len(lines)))

RECURSIVE drop_chars(_, _)
drop_chars(lines, k) ==
    IF k = 0 \/ lines = <<>> THEN lines
    ELSE IF k > Len(Head(lines)) THEN drop_chars(Tail(lines), k - Len(Head(lines)) - 1)
    ELSE <<SubSeq(Head(lines), k + 1, Len(Head(lines)))>> \o Tail(lines)

\* lines 64-74, followed by splitlines (line 281): the lines of the last
\* max_bytes characters of the file
last_file_symbols(lines, max_bytes) ==
    drop_chars(lines, Max(0, text_length(lines) - max_bytes))

\* a slip: every line is scanned, however many there are
last_lines_all(lines, n) == lines

\* lines[-n:]
last_lines(lines, n) == SubSeq(lines, Max(1, Len(lines) - n + 1), Len(lines))

TokPause == <<"p", "a", "u", "s", "e">>

TokDownload == <<"d", "o", "w", "n", "l", "o", "a", "d">>

TokDownloading == TokDownload \o <<"i", "n", "g">>

\* lines 288-293: what one line says
line_status(ln) ==
    LET low == lower(ln)
    IN  IF Contains(low, TokPause) THEN "paused"
        ELSE IF (Contains(low, TokDownloading) \/ Contains(low, TokDownload))
                /\ ~Contains(low, TokPause)
             THEN "downloading"
        ELSE "none"

\* lines 287-295: the newest line first; the newer half of the lines is
\* scanned before the older half
RECURSIVE scan_log(_)
scan_log(lines) ==
    IF lines = <<>> THEN "none"
    ELSE IF Len(lines) = 1 THEN line_status(lines[1])
    ELSE LET half  == Len(lines) \div 2
             newer == scan_log(SubSeq(lines, half + 1, Len(lines)))
         IN  IF newer # "none" THEN newer ELSE scan_log(SubSeq(lines, 1, half))

\* lines 275-295; appid is always given by the monitor (line 335)
detect_status_from_content_log(log, appid) ==
    IF ~log.exists THEN "none"
    ELSE LET lines == last_file_symbols(log.lines, MaxBytes)
             mine  == SelectSeq(lines, LAMBDA ln : Contains(ln, str(appid)))
         IN  scan_log(last_lines(mine, LogTailLines))

----------------------------------------------------------------------------
\* One iteration of the monitor loop, lines 322-370.

LowSpeed == 1024

PauseStreak == 2

ZeroSpeed == 1

MinDt == 1

Micro == 1000000

\* a slip: a size stored for another appid is taken for a baseline
has_baseline_any_app(lsize, lappid, appid) == lsize # None

\* line 343
has_baseline(lsize, lappid, appid) == lsize # None /\ lappid = Some(appid)

\* line 344: dt, microseconds
elapsed(now, ltime) == Max(MinDt, now - ltime)

\* a slip: the stored size is not subtracted
speed_bps_total(found, lsize, lappid, ltime, appid, cur_size, now) ==
    IF found /\ has_baseline(lsize, lappid, appid)
    THEN [num |-> cur_size * Micro, den |-> elapsed(now, ltime)]
    ELSE [num |-> 0, den |-> 1]

\* lines 338-345: bytes per second as the rational num/den
speed_bps(found, lsize, lappid, ltime, appid, cur_size, now) ==
    IF found /\ has_baseline(lsize, lappid, appid)
    THEN [num |-> (cur_size - lsize[1]) * Micro, den |-> elapsed(now, ltime)]
    ELSE [num |-> 0, den |-> 1]

\* abs(speed_bps) < limit
speed_below(speed, limit) == Abs(speed.num) < limit * speed.den

\* a slip: growth without a log hint is taken for a download
status_after_size_growth(hint, found, lsize, lappid, appid, cur_size) ==
    LET status == IF hint = "none" THEN "unknown" ELSE hint
    IN  IF found /\ has_baseline(lsize, lappid, appid) /\ status = "unknown"
        THEN (IF cur_size = lsize[1] THEN "paused" ELSE "downloading")
        ELSE status

\* lines 335, 347-348
status_after_size(hint, found, lsize, lappid, appid, cur_size) ==
    LET status == IF hint = "none" THEN "unknown" ELSE hint
    IN  IF /\ found
           /\ has_baseline(lsize, lappid, appid)
           /\ cur_size = lsize[1]
           /\ status = "unknown"
        THEN "paused"
        ELSE status

\* a slip: only a throughput below 1 B/s counts as low
next_zero_streak_zero_only(streak, speed) ==
    IF speed_below(speed, ZeroSpeed) THEN streak + 1 ELSE 0

\* lines 357-360
next_zero_streak(streak, speed) ==
    IF speed_below(speed, LowSpeed) THEN streak + 1 ELSE 0

\* a slip: the streak does not override a log hint
status_after_streak_keeps_hint(status, streak) ==
    IF streak >= PauseStreak /\ status = "unknown" THEN "paused" ELSE status

\* lines 363-364
status_after_streak(status, streak) ==
    IF streak >= PauseStreak THEN "paused" ELSE status

\* a slip: a zero throughput overrides the log hint
status_after_zero_any(status, speed) ==
    IF speed_below(speed, ZeroSpeed) THEN "paused" ELSE status

\* a slip: the rule of the zero throughput is left out
status_after_zero_skipped(status, speed) == status

\* lines 366-367
status_after_zero(status, speed) ==
    IF speed_below(speed, ZeroSpeed) /\ status = "unknown" THEN "paused" ELSE status

\* a slip: a size is stored although the directory was not found
next_last_size_stale(found, cur_size) == Some(cur_size)

\* lines 340-352
next_last_size(found, cur_size) == IF found THEN Some(cur_size) ELSE None

\* a slip: the appid is not carried over
next_last_appid_dropped(appid) == None

\* line 355
next_last_appid(appid) == Some(appid)

\* line 327
idle_last_size(lsize) == None

\* a slip: the appid survives an idle iteration
idle_last_appid_kept(lappid) == lappid

\* line 328
idle_last_appid(lappid) == None

----------------------------------------------------------------------------
\* Manifests.  A line of a key-value file is a sequence of tokens: a quoted
\* string <<"q", text>>, a run of white space <<"ws">>, or other text <<"x">>.

Q(text) == <<"q", text>>

WS == <<"ws">>

Other == <<"x">>

KeyName == <<"n", "a", "m", "e">>

\* line 146: ^\s*"([^"]+)"\s*"([^"]*)"\s*$  gives <<key, value>>, or None
kv_match(line) ==
    LET toks == SelectSeq(line, LAMBDA t : t # WS)
    IN  IF /\ Len(toks) = 2
           /\ toks[1][1] = "q"
           /\ toks[2][1] = "q"
           /\ toks[1][2] # <<>>
        THEN Some(<<toks[1][2], toks[2][2]>>)
        ELSE None

\* lines 148-159: the dictionary as the sequence of its (key, value) items,
\* a later line replacing the value of an earlier one with the same key
RECURSIVE parse_key_value_file(_)
parse_key_value_file(file) ==
    IF ~file.readable \/ file.lines = <<>> THEN <<>>
    ELSE LET n    == Len(file.lines)
             rest == parse_key_value_file([file EXCEPT !.lines = SubSeq(file.lines, 1, n - 1)])
             m    == kv_match(file.lines[n])
         IN  IF m = None THEN rest
             ELSE SelectSeq(rest, LAMBDA kv : kv[1] # m[1][1]) \o <<m[1]>>

\* kv.get(key)
kv_get(kv, key) ==
    LET hits == SelectSeq(kv, LAMBDA item : item[1] = key)
    IN  IF hits = <<>> THEN None ELSE Some(hits[1][2])

\* line 237: f"AppID {appid}"
fallback_name(appid) == <<"A", "p", "p", "I", "D", " ">> \o str(appid)

\* a slip: the first manifest found decides, with or without a name
RECURSIVE resolve_app_name_first_found(_, _, _)
resolve_app_name_first_found(appid, folders, mf) ==
    IF folders = <<>> THEN fallback_name(appid)
    ELSE LET sa == Head(folders)
         IN  IF appid \in DOMAIN mf[sa]
             THEN LET name == kv_get(parse_key_value_file(mf[sa][appid]), KeyName)
                  IN  IF name # None /\ name[1] # <<>> THEN name[1]
                      ELSE fallback_name(appid)
             ELSE resolve_app_name_first_found(appid, Tail(folders), mf)

\* lines 226-237
RECURSIVE resolve_app_name(_, _, _)
resolve_app_name(appid, folders, mf) ==
    IF folders = <<>> THEN fallback_name(appid)
    ELSE LET sa == Head(folders)
             name == IF appid \in DOMAIN mf[sa]
                     THEN kv_get(parse_key_value_file(mf[sa][appid]), KeyName)
                     ELSE None
         IN  IF name # None /\ name[1] # <<>> THEN name[1]
             ELSE resolve_app_name(appid, Tail(folders), mf)

----------------------------------------------------------------------------
\* The world of the monitor.

MaxTicks == 3

MaxLogLines == 1

SA_A == <<Sep, "a", Sep, "steamapps">>

SA_B == <<Sep, "b", Sep, "steamapps">>

Libs == {SA_A, SA_B}

N570 == <<"5", "7", "0">>

N0570 == <<"0", "5", "7", "0">>

N44 == <<"4", "4">>

Names == {N570, N0570, N44}

\* every order in which a listing may enumerate the names
ScanOrders == {o \in [1..Cardinality(Names) -> Names] : Range(o) = Names}

Sizes == {100, 1220}

\* In the monitor's world every in-progress directory has the same
\* modification time, so the candidate is the greatest appid present (line 263).
MTimes == {1}

\* the intervals a session may be started with, microseconds
Intervals == {0, Micro, 2 * Micro}

L570Download == N570 \o <<" ">> \o <<"D", "o", "w", "n", "l", "o", "a", "d">>

L570Paused == N570 \o <<" ">> \o <<"P", "a", "u", "s", "e", "d">>

L44Update == N44 \o <<" ">> \o <<"u", "p", "d", "a", "t", "e">>

LogLines == {L570Download, L570Paused}

NameDota == <<"D", "o", "t", "a">>

ManifestDota == [readable |-> TRUE, lines |-> << <<WS, Q(KeyName), WS, Q(NameDota)>> >>]

NoManifests == [sa \in Libs |-> <<>>]

NoSample == [emitted |-> FALSE, appid |-> None, name |-> <<>>, hint |-> "none",
             found |-> FALSE, baseline |-> FALSE, status |-> "none", speed |-> [num |-> 0, den |-> 1]]

InitFs ==
    /\ downloading = [sa \in Libs |-> NoDownloading]
    /\ manifests = [NoManifests EXCEPT ![SA_A] = (570 :> ManifestDota)]
    /\ logfile = NoLog
    /\ dirs = {}
    /\ links = <<>>
    /\ vdf = <<>>
    /\ host = NoHost

NoCall == [fn |-> "none"]

\* lines 304-320
Init ==
    /\ InitFs
    /\ clock = 0
    /\ interval_seconds \in Intervals
    /\ steamapps_folders = <<SA_A>>
    /\ last_size = None
    /\ last_appid = None
    /\ last_time = clock
    /\ zero_streak = 0
    /\ minute_idx = 0
    /\ out = NoSample
    /\ call = NoCall
    /\ ret = None

\* lines 325-330: no active download
TickIdle ==
    /\ last_size' = idle_last_size(last_size)
    /\ last_appid' = idle_last_appid(last_appid)
    /\ out' = NoSample
    /\ clock' = clock + interval_seconds
    /\ UNCHANGED <<last_time, zero_streak>>

\* lines 332-370: a sample
TickSample(appid) ==
    LET name     == resolve_app_name(appid, steamapps_folders, manifests)
        dl       == get_downloading_folder(steamapps_folders, downloading, appid)
        hint     == detect_status_from_content_log(logfile, appid)
        now      == clock
        found    == dl # None
        cur_size == IF found THEN folder_size_bytes(downloading, dl[1], appid) ELSE 0
        speed    == speed_bps(found, last_size, last_appid, last_time, appid, cur_size, now)
        status1  == status_after_size(hint, found, last_size, last_appid, appid, cur_size)
        streak   == next_zero_streak(zero_streak, speed)
        status2  == status_after_streak(status1, streak)
        status3  == status_after_zero(status2, speed)
    IN  /\ last_size' = next_last_size(found, cur_size)
        /\ last_time' = now
        /\ last_appid' = next_last_appid(appid)
        /\ zero_streak' = streak
        /\ out' = [emitted |-> TRUE, appid |-> Some(appid), name |-> name, hint |-> hint,
                   found |-> found,
                   baseline |-> found /\ has_baseline(last_size, last_appid, appid),
                   status |-> status3, speed |-> speed]
        /\ clock' = now + interval_seconds

\* lines 322-370: one iteration of the loop, with the sleep that ends it
Tick ==
    /\ minute_idx < MaxTicks
    /\ \E order \in ScanOrders :
         LET appid == detect_appid_from_downloading_dir(steamapps_folders, downloading, order)
         IN  IF appid = None THEN TickIdle ELSE TickSample(appid[1])
    /\ minute_idx' = minute_idx + 1
    /\ UNCHANGED <<fsVars, interval_seconds, steamapps_folders, callVars>>

\* ---- what Steam does to the file system while the loop runs

Running == minute_idx < MaxTicks

SteamFrame == UNCHANGED <<clock, interval_seconds, steamapps_folders, loopVars, callVars>>

MakeDownloading ==
    /\ Running
    /\ \E sa \in Range(steamapps_folders) :
         /\ ~downloading[sa].exists
         /\ downloading' = [downloading EXCEPT ![sa] = [exists |-> TRUE, entries |-> <<>>]]
    /\ UNCHANGED <<manifests, logfile, dirs, links, vdf, host>>
    /\ SteamFrame

StartDownload ==
    /\ Running
    /\ \E sa \in Range(steamapps_folders), n \in Names, t \in MTimes, size \in Sizes :
         /\ downloading[sa].exists
         /\ n \notin DOMAIN downloading[sa].entries
         /\ downloading' = [downloading EXCEPT ![sa].entries =
                              (n :> [kind |-> "dir", stat |-> Some(t), size |-> size]) @@ @]
    /\ UNCHANGED <<manifests, logfile, dirs, links, vdf, host>>
    /\ SteamFrame

WriteChunk ==
    /\ Running
    /\ \E sa \in Range(steamapps_folders), n \in Names, size \in Sizes :
         /\ downloading[sa].exists
         /\ n \in DOMAIN downloading[sa].entries
         /\ downloading[sa].entries[n].size # size
         /\ downloading' = [downloading EXCEPT ![sa].entries[n].size = size]
    /\ UNCHANGED <<manifests, logfile, dirs, links, vdf, host>>
    /\ SteamFrame

FinishDownload ==
    /\ Running
    /\ \E sa \in Range(steamapps_folders), n \in Names :
         /\ downloading[sa].exists
         /\ n \in DOMAIN downloading[sa].entries
         /\ downloading' = [downloading EXCEPT ![sa].entries =
                              [m \in DOMAIN @ \ {n} |-> @[m]]]
    /\ UNCHANGED <<manifests, logfile, dirs, links, vdf, host>>
    /\ SteamFrame

LogAppend ==
    /\ Running
    /\ Len(logfile.lines) < MaxLogLines
    /\ \E line \in LogLines :
         logfile' = [exists |-> TRUE, lines |-> Append(logfile.lines, line)]
    /\ UNCHANGED <<downloading, manifests, dirs, links, vdf, host>>
    /\ SteamFrame

LogRemove ==
    /\ Running
    /\ logfile.exists
    /\ logfile' = NoLog
    /\ UNCHANGED <<downloading, manifests, dirs, links, vdf, host>>
    /\ SteamFrame

Next ==
    \/ Tick
    \/ MakeDownloading
    \/ StartDownload
    \/ WriteChunk
    \/ FinishDownload
    \/ LogAppend
    \/ LogRemove

Spec == Init /\ [][Next]_vars

----------------------------------------------------------------------------
\* Properties of the monitor loop (specification Spec).

\* the iteration that ends in this step
TickStep == minute_idx' = minute_idx + 1

NoDownloadingAnywhere == \A sa \in Libs : ~downloading[sa].exists

\* C1: a sample emitted with zero_streak (after the update of its iteration)
\* at 2 or more has status paused, whatever the log hint was.
C1_StreakForcesPaused ==
    (out.emitted /\ zero_streak >= 2) => out.status = "paused"

C1_Witness ==
    /\ out.emitted
    /\ zero_streak >= 2
    /\ out.hint = "downloading"
    /\ out.status = "paused"

\* C2: when two consecutive iterations sample the same appid, its directory
\* has the same total size in both and the time elapsed is positive, the
\* second throughput is exactly 0 and, without a log hint, the status is paused.
C2_SameSizeIsZeroAndPaused ==
    [][(/\ TickStep
        /\ out.emitted /\ out.found
        /\ out'.emitted /\ out'.found
        /\ out'.appid = out.appid
        /\ last_size' = last_size
        /\ clock - last_time > 0)
       => (/\ out'.speed.num = 0
           /\ (out'.hint = "none" => out'.status = "paused"))]_vars

C2_Witness ==
    /\ out.emitted /\ out.found /\ out.baseline
    /\ interval_seconds > 0
    /\ minute_idx >= 2
    /\ out.speed.num = 0
    /\ out.hint = "none"
    /\ out.status = "paused"

\* the scenario of C3: downloading/570 measured 100 and, one second later, 1220
C3_Scenario ==
    /\ TickStep
    /\ out.emitted /\ out.appid = Some(570) /\ last_size = Some(100)
    /\ out'.emitted /\ out'.appid = Some(570) /\ last_size' = Some(1220)
    /\ clock - last_time = Micro
    /\ out'.hint = "none"

\* a sample with no baseline and no log hint has throughput 0 and status paused
C3_FirstSample(o) ==
    (o.emitted /\ ~o.baseline /\ o.hint = "none")
        => (o.speed.num = 0 /\ o.status = "paused")

\* a sample with a baseline, no log hint and |throughput| >= 1024 has this status
C3_FastSample(o, status) ==
    (o.emitted /\ o.baseline /\ o.hint = "none" /\ ~speed_below(o.speed, 1024))
        => o.status = status

\* C3 as stated: in the scenario the second sample has throughput 1120 B/s and
\* status downloading, and every sample with a baseline, no log hint and
\* |throughput| >= 1024 B/s is classified downloading.
C3_Original ==
    [][/\ C3_FirstSample(out')
       /\ C3_Scenario => (out'.speed.num = 1120 * out'.speed.den
                          /\ out'.status = "downloading")
       /\ C3_FastSample(out', "downloading")]_vars

\* C3 as amended: the first sample has throughput 0 and status paused; in the
\* scenario the second sample has throughput 1120 B/s and status unknown, and
\* every sample with a baseline, no log hint and |throughput| >= 1024 B/s has
\* status unknown.
C3_FastSampleIsUnknown ==
    [][/\ C3_FirstSample(out')
       /\ C3_Scenario => (out'.speed.num = 1120 * out'.speed.den
                          /\ out'.status = "unknown")
       /\ C3_FastSample(out', "unknown")]_vars

C3_Witness ==
    /\ out.emitted /\ out.appid = Some(570) /\ out.baseline
    /\ out.hint = "none"
    /\ last_size = Some(1220)
    /\ out.speed = [num |-> 1120 * Micro, den |-> Micro]
    /\ out.status = "unknown"

\* C4: an iteration that detects no candidate emits no sample and clears the
\* last size and the last appid; while no "downloading" directory exists, no
\* sample is emitted and both stay cleared.
C4_IdleClears ==
    [][/\ (TickStep /\ \A order \in ScanOrders :
               detect_appid_from_downloading_dir(steamapps_folders, downloading, order) = None)
          => (~out'.emitted /\ last_size' = None /\ last_appid' = None)
       /\ NoDownloadingAnywhere'
          => (~out'.emitted /\ last_size' = None /\ last_appid' = None)]_vars

C4_Witness ==
    /\ minute_idx >= 2
    /\ zero_streak >= 1
    /\ ~out.emitted
    /\ last_size = None
    /\ last_appid = None

\* C5 as stated: after an iteration whose candidate's directory could not be
\* located, the last size and the last appid are both cleared.
C5_Original ==
    (out.emitted /\ ~out.found) => (last_size = None /\ last_appid = None)

\* C5 as amended: after such an iteration the last size is cleared and the
\* last appid is the candidate's appid.
C5_MissingDirClearsSize ==
    (out.emitted /\ ~out.found) => (last_size = None /\ last_appid = out.appid)

C5_Witness ==
    /\ out.emitted /\ ~out.found
    /\ minute_idx >= 2
    /\ zero_streak >= 2
    /\ last_size = None
    /\ last_appid = Some(570)

----------------------------------------------------------------------------
\* detect_appid_from_downloading_dir on its own: any two libraries, any
\* children, one call.

NTmp == <<"t", "m", "p">>

DetectNames == {N570, N44, NTmp}

DetectOrders == {o \in [1..Cardinality(DetectNames) -> DetectNames] : Range(o) = DetectNames}

DetectMTimes == {1, 2}

DetectEntries ==
    {[kind |-> "file", stat |-> Some(1), size |-> 100]}
    \cup {[kind |-> "dir", stat |-> st, size |-> 100] :
            st \in {None} \cup {Some(t) : t \in DetectMTimes}}

\* the states a "downloading" directory can be in
DetectDirs ==
    {NoDownloading}
    \cup {[exists |-> TRUE, entries |-> f] :
            f \in UNION {[ns -> DetectEntries] : ns \in SUBSET DetectNames}}

FolderOrders == {<<SA_A, SA_B>>, <<SA_B, SA_A>>}

InitDetect ==
    /\ downloading \in [Libs -> DetectDirs]
    /\ manifests = NoManifests
    /\ logfile = NoLog
    /\ dirs = {}
    /\ links = <<>>
    /\ vdf = <<>>
    /\ host = NoHost
    /\ clock = 0
    /\ interval_seconds = 0
    /\ steamapps_folders = <<SA_A, SA_B>>
    /\ last_size = None
    /\ last_appid = None
    /\ last_time = 0
    /\ zero_streak = 0
    /\ minute_idx = 0
    /\ out = NoSample
    /\ call = NoCall
    /\ ret = None

CallFrame ==
    UNCHANGED <<fsVars, clock, interval_seconds, steamapps_folders, loopVars>>

\* line 323, alone
CallDetect ==
    /\ call = NoCall
    /\ \E order \in DetectOrders :
         ret' = detect_appid_from_downloading_dir(steamapps_folders, downloading, order)
    /\ call' = [fn |-> "detect"]
    /\ CallFrame

NextDetect == CallDetect

SpecDetect == InitDetect /\ [][NextDetect]_vars

\* the numeric child directories of all libraries, as <<library, name>>
NumericChildren ==
    {c \in Libs \X DetectNames :
        /\ downloading[c[1]].exists
        /\ c[2] \in DOMAIN downloading[c[1]].entries
        /\ downloading[c[1]].entries[c[2]].kind = "dir"
        /\ isdigit(c[2])}

ChildStat(c) == downloading[c[1]].entries[c[2]].stat

Readable == {c \in NumericChildren : ChildStat(c) # None}

Unreadable == {c \in NumericChildren : ChildStat(c) = None}

\* C6: detect returns the appid of the child whose modification time is
\* strictly greater than that of every other numeric child, whatever the
\* order of the libraries and the order of enumeration, and it returns None
\* exactly when no library has a numeric child directory.
C6_DetectGreatestMTime ==
    call.fn = "detect" =>
        /\ \A fo \in FolderOrders, o \in DetectOrders :
               detect_appid_from_downloading_dir(fo, downloading, o) = ret
        /\ \A c \in Readable :
               (\A c2 \in Readable \ {c} : ChildStat(c2)[1] < ChildStat(c)[1])
                   => ret = Some(int(c[2]))
        /\ (ret = None) <=> (NumericChildren = {})

C6_Witness ==
    /\ call.fn = "detect"
    /\ ret = Some(44)
    /\ <<SA_A, N44>> \in Readable /\ ChildStat(<<SA_A, N44>>) = Some(2)
    /\ <<SA_B, N570>> \in Readable /\ ChildStat(<<SA_B, N570>>) = Some(1)
    /\ <<SA_A, N570>> \notin NumericChildren

----------------------------------------------------------------------------
\* resolve_app_name on its own: two libraries, any manifest of appid 570 in
\* each, one call.

MaxManifestLines == 2

NamePortal == <<"P", "o", "r", "t", "a", "l">>

KeyAppid == <<"a", "p", "p", "i", "d">>

ManifestLines ==
    { <<WS, Q(KeyName), WS, Q(NameDota)>>,
      <<Q(KeyName), Q(NamePortal), WS>>,
      <<Q(KeyName), WS, Q(<<>>)>>,
      <<WS, Q(KeyAppid), WS, Q(N570)>>,
      <<Q(KeyName), WS, Q(NameDota), Other>> }

ManifestFiles ==
    {[readable |-> FALSE, lines |-> << <<Q(KeyName), Q(NameDota)>> >>]}
    \cup {[readable |-> TRUE, lines |-> ls] :
            ls \in UNION {[1..n -> ManifestLines] : n \in 0..MaxManifestLines}}

\* the manifests a library can hold
ManifestDirs == {<<>>} \cup {(570 :> f) : f \in ManifestFiles}

ResolveAppids == {570, 44}

InitName ==
    /\ downloading = [sa \in Libs |-> NoDownloading]
    /\ manifests \in [Libs -> ManifestDirs]
    /\ logfile = NoLog
    /\ dirs = {}
    /\ links = <<>>
    /\ vdf = <<>>
    /\ host = NoHost
    /\ clock = 0
    /\ interval_seconds = 0
    /\ steamapps_folders = <<SA_A, SA_B>>
    /\ last_size = None
    /\ last_appid = None
    /\ last_time = 0
    /\ zero_streak = 0
    /\ minute_idx = 0
    /\ out = NoSample
    /\ call = NoCall
    /\ ret = None

\* line 332, alone
CallResolve ==
    /\ call = NoCall
    /\ \E appid \in ResolveAppids :
         /\ ret' = resolve_app_name(appid, steamapps_folders, manifests)
         /\ call' = [fn |-> "resolve", appid |-> appid]
    /\ CallFrame

NextName == CallResolve

SpecName == InitName /\ [][NextName]_vars

\* the libraries, in order, that hold the manifest of the appid
Holders(appid) ==
    SelectSeq(steamapps_folders, LAMBDA sa : appid \in DOMAIN manifests[sa])

\* the lines of a manifest that are a name entry
NameLines(file) ==
    {i \in DOMAIN file.lines :
        kv_match(file.lines[i]) # None /\ kv_match(file.lines[i])[1][1] = KeyName}

HasNameKey(file) == file.readable /\ NameLines(file) # {}

\* the value of the name key: that of the last name entry
NameValue(file) ==
    kv_match(file.lines[CHOOSE i \in NameLines(file) : \A j \in NameLines(file) : j <= i])[1][2]

HasName(file) == HasNameKey(file) /\ NameValue(file) # <<>>

\* C8 as stated: the first library holding the manifest decides: the result
\* is its name value, or the fallback when it has no name (no name key, or an
\* empty value); the fallback when no library holds the manifest; never no
\* result.
C8_Original ==
    call.fn = "resolve" =>
        LET hs == Holders(call.appid)
        IN  /\ ret # <<>>
            /\ hs = <<>> => ret = fallback_name(call.appid)
            /\ hs # <<>> =>
                 LET file == manifests[hs[1]][call.appid]
                 IN  ret = IF HasName(file) THEN NameValue(file)
                           ELSE fallback_name(call.appid)

\* the libraries, in order, whose manifest of the appid has a non-empty name
Named(appid) ==
    SelectSeq(Holders(appid), LAMBDA sa : HasName(manifests[sa][appid]))

\* C8 as amended: the first library, in order, whose manifest has a non-empty
\* name value decides; the result is the fallback when no library holds such
\* a manifest; never no result.
C8_FirstNamedManifest ==
    call.fn = "resolve" =>
        LET ns == Named(call.appid)
        IN  /\ ret # <<>>
            /\ ns = <<>> => ret = fallback_name(call.appid)
            /\ ns # <<>> => ret = NameValue(manifests[ns[1]][call.appid])

C8_Witness ==
    /\ call.fn = "resolve" /\ call.appid = 570
    /\ 570 \in DOMAIN manifests[SA_A] /\ 570 \in DOMAIN manifests[SA_B]
    /\ ~HasNameKey(manifests[SA_A][570])
    /\ HasName(manifests[SA_B][570])
    /\ ret = NamePortal

----------------------------------------------------------------------------
\* Library discovery.  The text of libraryfolders.vdf is a sequence of
\* tokens; the text inside a quoted token is a sequence of characters, or,
\* for a path, of path tokens in which the file may escape the separator by
\* doubling it.

NoVdf == [exists |-> FALSE, readable |-> FALSE, tokens |-> <<>>]

\* lines 33-37: a path whose first component is a symbolic link is resolved
safe_realpath(p, lk) ==
    IF Len(p) >= 2 /\ SubSeq(p, 1, 2) \in DOMAIN lk
    THEN lk[SubSeq(p, 1, 2)] \o SubSeq(p, 3, Len(p))
    ELSE p

\* os.path.isdir
isdir(p, ds, lk) == safe_realpath(p, lk) \in ds

\* lines 175, 182: replace("\\\\", "\\")
RECURSIVE unescape(_)
unescape(raw) ==
    IF Len(raw) < 2 THEN raw
    ELSE IF raw[1] = Sep /\ raw[2] = Sep THEN <<Sep>> \o unescape(SubSeq(raw, 3, Len(raw)))
    ELSE <<raw[1]>> \o unescape(Tail(raw))

\* the \s* on both sides of a key
RECURSIVE strip(_)
strip(text) ==
    IF text = <<>> THEN text
    ELSE IF text[1] = " " THEN strip(Tail(text))
    ELSE IF text[Len(text)] = " " THEN strip(SubSeq(text, 1, Len(text) - 1))
    ELSE text

KeyPath == <<"p", "a", "t", "h">>

\* line 174: "\s*path\s*", ignoring case
is_path_key(text) == strip(lower(text)) = KeyPath

\* line 181: "\s*\d+\s*"
is_index_key(text) == isdigit(strip(text))

is_key(kind, text) == IF kind = "path" THEN is_path_key(text) ELSE is_index_key(text)

\* lines 174, 181: re.finditer, the values of the matches from token i on;
\* a match takes a key token and the value token after it
RECURSIVE find_values(_, _, _)
find_values(toks, i, kind) ==
    IF i >= Len(toks) THEN <<>>
    ELSE IF /\ toks[i][1] = "q" /\ is_key(kind, toks[i][2])
            /\ toks[i + 1][1] = "q" /\ toks[i + 1][2] # <<>>
         THEN <<toks[i + 1][2]>> \o find_values(toks, i + 2, kind)
         ELSE find_values(toks, i + 1, kind)

\* lines 175-178, 182-185: the values that resolve to an existing directory
RECURSIVE existing_dirs(_, _, _)
existing_dirs(values, ds, lk) ==
    IF values = <<>> THEN <<>>
    ELSE LET p == safe_realpath(unescape(Head(values)), lk)
         IN  (IF p # <<>> /\ isdir(p, ds, lk) THEN <<p>> ELSE <<>>)
             \o existing_dirs(Tail(values), ds, lk)

\* a slip: duplicates are left in
dedupe_kept(s) == s

\* lines 188-193, 210-215: duplicates removed, the first occurrence kept
RECURSIVE dedupe(_)
dedupe(s) ==
    IF s = <<>> THEN <<>>
    ELSE LET front == dedupe(SubSeq(s, 1, Len(s) - 1))
         IN  IF s[Len(s)] \in Range(front) THEN front ELSE Append(front, s[Len(s)])

VdfName == "libraryfolders.vdf"

\* os.path.isfile(path) for the one vdf file of the file system, which lies
\* in the steamapps directory of the install root
isfile_vdf(path, root, file, ds, lk) ==
    /\ file.exists
    /\ safe_realpath(path, lk) = safe_realpath(join(join(root, "steamapps"), VdfName), lk)
    /\ isdir(join(root, "steamapps"), ds, lk)

\* lines 162-195
parse_libraryfolders_vdf(path, root, file, ds, lk) ==
    IF ~isfile_vdf(path, root, file, ds, lk) \/ ~file.readable THEN <<>>
    ELSE LET toks == SelectSeq(file.tokens, LAMBDA t : t # WS)
         IN  dedupe(existing_dirs(find_values(toks, 1, "path"), ds, lk)
                    \o existing_dirs(find_values(toks, 1, "index"), ds, lk))

\* a slip: a library is listed although it has no steamapps directory
RECURSIVE library_steamapps_unchecked(_, _, _)
library_steamapps_unchecked(libs, ds, lk) ==
    IF libs = <<>> THEN <<>>
    ELSE <<safe_realpath(join(Head(libs), "steamapps"), lk)>>
         \o library_steamapps_unchecked(Tail(libs), ds, lk)

\* lines 205-208
RECURSIVE library_steamapps(_, _, _)
library_steamapps(libs, ds, lk) ==
    IF libs = <<>> THEN <<>>
    ELSE LET sa == join(Head(libs), "steamapps")
         IN  (IF isdir(sa, ds, lk) THEN <<safe_realpath(sa, lk)>> ELSE <<>>)
             \o library_steamapps(Tail(libs), ds, lk)

\* lines 198-216
get_all_steamapps_folders(steam_path, file, ds, lk) ==
    LET main_sa == join(steam_path, "steamapps")
        lib_vdf == join(main_sa, VdfName)
    IN  dedupe((IF isdir(main_sa, ds, lk) THEN <<safe_realpath(main_sa, lk)>> ELSE <<>>)
               \o library_steamapps(
                      parse_libraryfolders_vdf(lib_vdf, steam_path, file, ds, lk), ds, lk))

----------------------------------------------------------------------------
\* parse_libraryfolders_vdf and get_all_steamapps_folders on their own: an
\* install root \r, library directories \a and \b, a symbolic link \l to \a,
\* any small vdf file, one call.

MaxVdfEntries == 2

ROOT == <<Sep, "r">>

PA == <<Sep, "a">>

PB == <<Sep, "b">>

PL == <<Sep, "l">>

MAIN_SA == join(ROOT, "steamapps")

VdfPath == join(MAIN_SA, VdfName)

\* a path as the file writes it, the separator doubled
escaped(p) == <<Sep>> \o p

RawPaths == {escaped(PA), PA, escaped(PL), escaped(PB), escaped(ROOT)}

KeyPathMixed == <<" ", "P", "a", "t", "h">>

KeyIndex == <<"1">>

KeyLabel == <<"l", "a", "b", "e", "l">>

VdfKeys == {KeyPathMixed, KeyIndex, KeyLabel}

\* the entries a file is made of: a key and a value, or a brace
VdfEntries == {<<Q(k), WS, Q(raw)>> : k \in VdfKeys, raw \in RawPaths} \cup {<<Other>>}

RECURSIVE flatten(_)
flatten(ss) == IF ss = <<>> THEN <<>> ELSE Head(ss) \o flatten(Tail(ss))

VdfFiles ==
    {[exists |-> TRUE, readable |-> TRUE, tokens |-> flatten(es)] :
        es \in UNION {[1..n -> VdfEntries] : n \in 0..MaxVdfEntries}}
    \cup {[exists |-> TRUE, readable |-> FALSE, tokens |-> <<Q(KeyPath), Q(escaped(PA))>>]}

\* the directories that exist: the root and \a always, the others or not
DirSets ==
    {{ROOT, PA} \cup m \cup a \cup b :
        m \in {{}, {MAIN_SA}},
        a \in {{}, {SA_A}},
        b \in {{}, {PB}, {PB, SA_B}}}

InitCatalog ==
    /\ downloading = [sa \in Libs |-> NoDownloading]
    /\ manifests = NoManifests
    /\ logfile = NoLog
    /\ dirs \in DirSets
    /\ links = (PL :> PA)
    /\ vdf \in IF MAIN_SA \in dirs THEN {NoVdf} \cup VdfFiles ELSE {NoVdf}
    /\ host = NoHost
    /\ clock = 0
    /\ interval_seconds = 0
    /\ steamapps_folders = <<>>
    /\ last_size = None
    /\ last_appid = None
    /\ last_time = 0
    /\ zero_streak = 0
    /\ minute_idx = 0
    /\ out = NoSample
    /\ call = NoCall
    /\ ret = None

\* line 205, alone
CallParse ==
    /\ call = NoCall
    /\ ret' = parse_libraryfolders_vdf(VdfPath, ROOT, vdf, dirs, links)
    /\ call' = [fn |-> "parse"]
    /\ CallFrame

\* line 304, alone
CallDiscover ==
    /\ call = NoCall
    /\ ret' = get_all_steamapps_folders(ROOT, vdf, dirs, links)
    /\ call' = [fn |-> "discover"]
    /\ CallFrame

NextCatalog == CallParse \/ CallDiscover

SpecCatalog == InitCatalog /\ [][NextCatalog]_vars

NoDuplicates(s) == \A i, j \in DOMAIN s : s[i] = s[j] => i = j

\* the tokens of the file that are not white space
VdfToks == SelectSeq(vdf.tokens, LAMBDA t : t # WS)

\* the entries of the file of one variant: the places of their keys
EntriesOf(kind) ==
    IF ~vdf.exists \/ ~vdf.readable THEN {}
    ELSE {i \in 1..(Len(VdfToks) - 1) :
            /\ VdfToks[i][1] = "q" /\ is_key(kind, VdfToks[i][2])
            /\ VdfToks[i + 1][1] = "q" /\ VdfToks[i + 1][2] # <<>>}

FileEntries == EntriesOf("path") \cup EntriesOf("index")

\* the path an entry resolves to
ResolvedAt(i) == safe_realpath(unescape(VdfToks[i + 1][2]), links)

\* the entries that name an existing directory
LiveEntries(kind) == {i \in EntriesOf(kind) : ResolvedAt(i) \in dirs}

Least(S) == CHOOSE x \in S : \A y \in S : x <= y

\* where a path is first seen in the file
FirstSeen(p) == Least({i \in FileEntries : ResolvedAt(i) = p})

\* where a path is first seen by the two passes: the path-keyed entries, in
\* the order of the file, then the integer-keyed ones, in the order of the file
FirstMatched(p) ==
    IF \E i \in EntriesOf("path") : ResolvedAt(i) = p
    THEN Least({i \in EntriesOf("path") : ResolvedAt(i) = p})
    ELSE Len(VdfToks) + Least({i \in EntriesOf("index") : ResolvedAt(i) = p})

ParsedOnce ==
    /\ NoDuplicates(ret)
    /\ Range(ret) = {ResolvedAt(i) : i \in LiveEntries("path") \cup LiveEntries("index")}

\* C9 as stated: parsing returns every distinct resolved path that names an
\* existing directory exactly once, in the order in which the entries of
\* both variants first show them in the file.
C9_Original ==
    call.fn = "parse" =>
        /\ ParsedOnce
        /\ \A a, b \in DOMAIN ret : a < b => FirstSeen(ret[a]) < FirstSeen(ret[b])

\* C9 as amended: parsing returns every distinct resolved path that names an
\* existing directory exactly once; the paths of path-keyed entries come
\* first, in the order of the file, then those only integer-keyed entries
\* name, in the order of the file.
C9_ParseOrder ==
    call.fn = "parse" =>
        /\ ParsedOnce
        /\ \A a, b \in DOMAIN ret : a < b => FirstMatched(ret[a]) < FirstMatched(ret[b])

C9_Witness ==
    /\ call.fn = "parse"
    /\ Cardinality(LiveEntries("path")) = 1 /\ Cardinality(LiveEntries("index")) = 1
    /\ \E i \in LiveEntries("index"), j \in LiveEntries("path") :
          i < j /\ ResolvedAt(i) = PB /\ ResolvedAt(j) = PA /\ VdfToks[j + 1][2] = escaped(PL)
    /\ ret = <<PA, PB>>

\* the libraries parsing the root's vdf file yields
ParsedLibs == parse_libraryfolders_vdf(VdfPath, ROOT, vdf, dirs, links)

\* the entry of a library: its steamapps directory, resolved
LibEntry(lib) == safe_realpath(join(lib, "steamapps"), links)

MainEntry == safe_realpath(MAIN_SA, links)

HasMain == safe_realpath(MAIN_SA, links) \in dirs

HasSteamapps(lib) == safe_realpath(join(lib, "steamapps"), links) \in dirs

\* when an entry is first yielded: the primary directory first, then the
\* libraries in the order parsing yields them
FirstYielded(e, libs) ==
    IF HasMain /\ e = MainEntry THEN 0
    ELSE Least({k \in DOMAIN libs : LibEntry(libs[k]) = e})

MainFirst == HasMain => (ret # <<>> /\ ret[1] = MainEntry)

\* C10 as stated: the result has no duplicates, starts with the primary
\* content directory when it exists, and has an entry for every library that
\* parsing yields, in the order parsing yields them.
C10_Original ==
    call.fn = "discover" =>
        /\ NoDuplicates(ret)
        /\ MainFirst
        /\ Range(ret) = (IF HasMain THEN {MainEntry} ELSE {})
                        \cup {LibEntry(ParsedLibs[k]) : k \in DOMAIN ParsedLibs}
        /\ \A a, b \in DOMAIN ret :
               a < b => FirstYielded(ret[a], ParsedLibs) < FirstYielded(ret[b], ParsedLibs)

\* the libraries parsing yields that have a steamapps directory
LiveLibs == SelectSeq(ParsedLibs, HasSteamapps)

\* C10 as amended: the result has no duplicates, starts with the primary
\* content directory when it exists, and has an entry for every library that
\* parsing yields and that has a steamapps directory of its own, in the order
\* parsing yields them; a library without one has no entry.
C10_DiscoverLiveLibraries ==
    call.fn = "discover" =>
        /\ NoDuplicates(ret)
        /\ MainFirst
        /\ Range(ret) = (IF HasMain THEN {MainEntry} ELSE {})
                        \cup {LibEntry(LiveLibs[k]) : k \in DOMAIN LiveLibs}
        /\ \A a, b \in DOMAIN ret :
               a < b => FirstYielded(ret[a], LiveLibs) < FirstYielded(ret[b], LiveLibs)

C10_Witness ==
    /\ call.fn = "discover"
    /\ ParsedLibs = <<PB, PA>>
    /\ HasMain /\ ~HasSteamapps(PB) /\ HasSteamapps(PA)
    /\ ret = <<MainEntry, LibEntry(PA)>>

----------------------------------------------------------------------------
\* find_steam_path.  The host is sys.platform, the registry (a value is
\* absent, a string, or of another type) and the two environment variables
\* of the fallback.  A home-relative candidate is a path of one component.

\* line 107: plat.startswith("linux")
is_linux(plat) == plat \in {"linux", "linux2"}

\* lines 8-11: the module winreg can be imported
winreg_present(plat) == plat = "win32"

\* lines 96-98
DarwinCandidates == << <<Sep, "Library/Application Support/Steam">> >>

\* lines 108-112
LinuxCandidates ==
    << <<Sep, ".steam/steam">>,
       <<Sep, ".local/share/Steam">>,
       <<Sep, ".var/app/com.valvesoftware.Steam/.local/share/Steam">> >>

\* a slip: the machine-scope key is read before the user-scope key
registry_candidates_machine_first == <<"HKLM_InstallPath", "HKCU_SteamPath", "HKLM_WOW6432_InstallPath">>

\* lines 121-125
registry_candidates == <<"HKCU_SteamPath", "HKLM_InstallPath", "HKLM_WOW6432_InstallPath">>

\* lines 133-136: the variables of the fallback, in order
fallback_vars == <<"ProgramFiles(x86)", "ProgramFiles">>

\* lines 77-88
read_registry_value(reg, key) ==
    LET val == reg[key]
    IN  IF val.kind = "sz" /\ strip(val.text) # <<>> THEN Some(val.text) ELSE None

\* lines 134-135: os.path.expandvars(r"%VAR%\Steam"); an undefined variable
\* is left as it stands, which gives a relative path
expandvars(name, env) ==
    IF env[name] = None THEN <<"%" \o name \o "%", Sep, "Steam">>
    ELSE env[name][1] \o <<Sep, "Steam">>

\* lines 100-101, 129-130: the resolved path if it holds steamapps
accept_root(p, ds, lk) ==
    LET r == safe_realpath(p, lk)
    IN  IF isdir(r, ds, lk) /\ isdir(join(r, "steamapps"), ds, lk) THEN Some(r) ELSE None

\* the loops at lines 99, 113, 126, 137: the first candidate that is accepted;
\* a candidate that is None (lines 128, 138) is passed over
RECURSIVE first_root(_, _, _)
first_root(candidates, ds, lk) ==
    IF candidates = <<>> THEN None
    ELSE LET p == Head(candidates)
             r == IF p = None THEN None ELSE accept_root(p[1], ds, lk)
         IN  IF r # None THEN r ELSE first_root(Tail(candidates), ds, lk)

\* lines 91-143
find_steam_path(h, ds, lk) ==
    IF h.platform = "darwin"
    THEN first_root([i \in DOMAIN DarwinCandidates |-> Some(DarwinCandidates[i])], ds, lk)
    ELSE IF is_linux(h.platform)
    THEN first_root([i \in DOMAIN LinuxCandidates |-> Some(LinuxCandidates[i])], ds, lk)
    ELSE IF winreg_present(h.platform)
    THEN first_root(
             [i \in DOMAIN registry_candidates |->
                 read_registry_value(h.registry, registry_candidates[i])]
             \o [i \in DOMAIN fallback_vars |-> Some(expandvars(fallback_vars[i], h.env))],
             ds, lk)
    ELSE None

----------------------------------------------------------------------------
\* find_steam_path on its own: any host, any directories, one call.

Platforms == {"darwin", "linux", "linux2", "win32", "freebsd"}

RegKeys == Range(registry_candidates)

\* a value of the registry: none, a number, a blank string, a path
RegValues ==
    {[kind |-> "absent", text |-> <<>>],
     [kind |-> "dword", text |-> <<>>],
     [kind |-> "sz", text |-> <<" ">>],
     [kind |-> "sz", text |-> PA],
     [kind |-> "sz", text |-> PB]}

PF86 == <<Sep, "pf86">>

PF == <<Sep, "pf">>

Envs ==
    {("ProgramFiles(x86)" :> Some(PF86)) @@ ("ProgramFiles" :> Some(PF)),
     ("ProgramFiles(x86)" :> None) @@ ("ProgramFiles" :> Some(PF))}

NoEnv == ("ProgramFiles(x86)" :> None) @@ ("ProgramFiles" :> None)

NoRegistry == [k \in RegKeys |-> [kind |-> "absent", text |-> <<>>]]

\* the hosts: only a win32 host has a registry
Hosts ==
    {[platform |-> pl, registry |-> NoRegistry, env |-> NoEnv] : pl \in Platforms \ {"win32"}}
    \cup {[platform |-> "win32", registry |-> reg, env |-> env] :
            reg \in [RegKeys -> RegValues], env \in Envs}

\* the places an install root may be at on a host
RootsOf(h) ==
    IF h.platform = "darwin" THEN Range(DarwinCandidates)
    ELSE IF is_linux(h.platform) THEN Range(LinuxCandidates)
    ELSE IF h.platform = "win32" THEN {PA, PB, PF86 \o <<Sep, "Steam">>, PF \o <<Sep, "Steam">>}
    ELSE {}

\* each place is missing, a directory, or a directory that holds steamapps
LocateDirSets(h) ==
    {roots \cup {join(r, "steamapps") : r \in full \cap roots} :
        roots \in SUBSET RootsOf(h), full \in SUBSET RootsOf(h)}

\* ~/.steam/steam is, or is not, a symbolic link to ~/.local/share/Steam
LocateLinks(h) ==
    IF is_linux(h.platform) THEN {<<>>, (LinuxCandidates[1] :> LinuxCandidates[2])}
    ELSE {<<>>}

InitLocate ==
    /\ host \in Hosts
    /\ dirs \in LocateDirSets(host)
    /\ links \in LocateLinks(host)
    /\ downloading = [sa \in Libs |-> NoDownloading]
    /\ manifests = NoManifests
    /\ logfile = NoLog
    /\ vdf = NoVdf
    /\ clock = 0
    /\ interval_seconds = 0
    /\ steamapps_folders = <<>>
    /\ last_size = None
    /\ last_appid = None
    /\ last_time = 0
    /\ zero_streak = 0
    /\ minute_idx = 0
    /\ out = NoSample
    /\ call = NoCall
    /\ ret = None

\* line 298, alone
CallLocate ==
    /\ call = NoCall
    /\ ret' = find_steam_path(host, dirs, links)
    /\ call' = [fn |-> "locate"]
    /\ CallFrame

NextLocate == CallLocate

SpecLocate == InitLocate /\ [][NextLocate]_vars

\* the candidates of the host in the order of priority: on win32 the
\* user-scope key, the machine-scope key, the 32-bit machine-scope key, then
\* the two program directories; a key without a usable string gives none
RegString(key) ==
    LET val == host.registry[key]
    IN  IF val.kind = "sz" /\ \E i \in DOMAIN val.text : val.text[i] # " "
        THEN Some(val.text) ELSE None

ProgramDir(name) ==
    IF host.env[name] = None THEN None ELSE Some(host.env[name][1] \o <<Sep, "Steam">>)

PriorityCandidates ==
    IF host.platform = "darwin" THEN << Some(<<Sep, "Library/Application Support/Steam">>) >>
    ELSE IF host.platform \in {"linux", "linux2"}
    THEN << Some(<<Sep, ".steam/steam">>),
            Some(<<Sep, ".local/share/Steam">>),
            Some(<<Sep, ".var/app/com.valvesoftware.Steam/.local/share/Steam">>) >>
    ELSE IF host.platform = "win32"
    THEN << RegString("HKCU_SteamPath"),
            RegString("HKLM_InstallPath"),
            RegString("HKLM_WOW6432_InstallPath"),
            ProgramDir("ProgramFiles(x86)"),
            ProgramDir("ProgramFiles") >>
    ELSE <<>>

ResolvedCandidate(i) == safe_realpath(PriorityCandidates[i][1], links)

\* the candidate's resolved path is a directory that holds steamapps
Qualifies(i) ==
    /\ PriorityCandidates[i] # None
    /\ ResolvedCandidate(i) \in dirs
    /\ safe_realpath(join(ResolvedCandidate(i), "steamapps"), links) \in dirs

Qualified == {i \in DOMAIN PriorityCandidates : Qualifies(i)}

\* C11: find_steam_path returns the resolved path of the first candidate, in
\* the order of priority of the platform, whose resolved path holds steamapps;
\* it returns None exactly when no candidate qualifies, and never a later
\* candidate while an earlier one qualifies.
C11_LocateFirstQualified ==
    call.fn = "locate" =>
        /\ (ret = None) <=> (Qualified = {})
        /\ Qualified # {} => ret = Some(ResolvedCandidate(Least(Qualified)))

C11_Witness ==
    /\ call.fn = "locate"
    /\ host.platform = "win32"
    /\ host.registry["HKCU_SteamPath"].text = PB
    /\ host.registry["HKLM_InstallPath"].text = PA
    /\ Qualified = {2, 4, 5}
    /\ ret = Some(PA)

----------------------------------------------------------------------------
\* More properties of the monitor loop (specification Spec).

\* the iteration that ends in this step emits a sample
SampleStep == TickStep /\ out'.emitted

\* before the step: a size is stored, and it is of the appid now sampled
SameAppBaseline == last_size # None /\ last_appid = out'.appid

\* seconds between the iteration that stored the size and this one, in
\* microseconds, with the floor of 1e-6 s
SinceStored == IF clock - last_time > 0 THEN clock - last_time ELSE 1

\* the throughput of the step is (the size now stored - the size stored before) / elapsed
\* bytes per second: the bytes times 10^6 over the microseconds
SpeedIsDelta ==
    /\ out'.speed.num = (last_size'[1] - last_size[1]) * Micro
    /\ out'.speed.den = SinceStored

\* C12 as stated: the throughput is 0 on every sampled iteration without a
\* same-app baseline, and on every other sampled iteration it is
\* (current size - stored size) / elapsed seconds.
C12_Original ==
    [][SampleStep =>
         IF ~SameAppBaseline THEN out'.speed.num = 0
         ELSE last_size' # None /\ SpeedIsDelta]_vars

\* C12 as amended: the throughput is 0 on every sampled iteration without a
\* same-app baseline and on every sampled iteration whose directory is
\* missing; on every other sampled iteration it is (current size - stored
\* size) / elapsed seconds, the elapsed time floored at 1e-6 s.
C12_ThroughputIsDelta ==
    [][SampleStep =>
         IF ~SameAppBaseline \/ last_size' = None THEN out'.speed.num = 0
         ELSE SpeedIsDelta]_vars

C12_Witness ==
    /\ out.emitted /\ out.baseline
    /\ interval_seconds = 2 * Micro
    /\ last_size = Some(100)
    /\ out.speed.num = (100 - 1220) * Micro
    /\ out.speed.den = 2 * Micro

\* the libraries, in order, that hold the in-progress directory of the
\* appid sampled in this step
HoldersOfSampled ==
    {i \in DOMAIN steamapps_folders :
        /\ downloading[steamapps_folders[i]].exists
        /\ str(out'.appid[1]) \in DOMAIN downloading[steamapps_folders[i]].entries}

\* the size of that directory in the first such library
MeasuredSize ==
    downloading[steamapps_folders[Least(HoldersOfSampled)]].entries[str(out'.appid[1])].size

\* C13: after every iteration whose candidate's in-progress directory is
\* found, the last size is the size measured in it, the last time is the
\* wall-clock time of the iteration and the last appid is its appid, with or
\* without a baseline and whatever the last appid was.
C13_StateFollowsSample ==
    [][(SampleStep /\ HoldersOfSampled # {})
         => (/\ last_size' = Some(MeasuredSize)
             /\ last_time' = clock
             /\ last_appid' = out'.appid)]_vars

C13_Witness ==
    /\ out.emitted /\ out.found /\ ~out.baseline
    /\ minute_idx >= 2 /\ zero_streak >= 2
    /\ interval_seconds > 0
    /\ last_size = Some(1220)
    /\ last_time = clock - interval_seconds
    /\ last_appid = Some(44)

\* |throughput| of the sample < 1024 bytes per second
LowSpeedSample(o) == Abs(o.speed.num) < 1024 * o.speed.den

\* C14: on every iteration that emits a sample zero_streak becomes its
\* previous value plus one when |throughput| < 1024 B/s and 0 otherwise; it
\* is never negative.
C14_StreakCounts ==
    [][/\ SampleStep =>
            zero_streak' = (IF LowSpeedSample(out') THEN zero_streak + 1 ELSE 0)
       /\ zero_streak' >= 0]_vars

C14_Witness ==
    /\ out.emitted /\ out.baseline
    /\ minute_idx = 3
    /\ interval_seconds = Micro
    /\ ~LowSpeedSample(out)
    /\ zero_streak = 0

\* |throughput| of the sample < 1 byte per second
ZeroSpeedSample(o) == Abs(o.speed.num) < o.speed.den

\* C15: a sample with a log hint and zero_streak (after the update of its
\* iteration) below 2 has the hint as its status, a first observation with
\* throughput 0 and hint downloading included; a sample without a hint to
\* which no pause rule applies (zero_streak below 2, |throughput| >= 1 B/s,
\* hence a changed size) has status unknown.
C15_HintDecides ==
    /\ (out.emitted /\ out.hint # "none" /\ zero_streak < 2) => out.status = out.hint
    /\ (out.emitted /\ out.hint = "none" /\ zero_streak < 2 /\ ~ZeroSpeedSample(out))
           => out.status = "unknown"

C15_Witness ==
    /\ out.emitted /\ ~out.baseline
    /\ out.hint = "downloading"
    /\ out.speed.num = 0
    /\ zero_streak = 1
    /\ out.status = "downloading"

\* C16: no sample has status unknown together with |throughput| < 1 B/s;
\* with such a throughput and no log hint the status is paused.
C16_ZeroIsNeverUnknown ==
    (out.emitted /\ ZeroSpeedSample(out))
        => (/\ out.status # "unknown"
            /\ out.hint = "none" => out.status = "paused")

\* a first sample: no unchanged size to compare, the streak at 1, no hint
C16_Witness ==
    /\ out.emitted /\ out.found /\ ~out.baseline
    /\ minute_idx = 1
    /\ out.hint = "none"
    /\ zero_streak = 1
    /\ ZeroSpeedSample(out)
    /\ out.status = "paused"

----------------------------------------------------------------------------
\* detect_status_from_content_log on its own: any log, one call.  A log is a
\* line or none, then a run of lines about 570 that say nothing of its state
\* (none, one less than the window of lines, or the whole window), then the
\* newest lines.

MaxLogTail == 2

L570Update == N570 \o <<" ">> \o <<"u", "p", "d", "a", "t", "e">>

L44Downloading == N44 \o <<" ">> \o <<"d", "o", "w", "n", "l", "o", "a", "d", "i", "n", "g">>

L570Both == N570 \o <<" ">> \o <<"D", "o", "w", "n", "l", "o", "a", "d", " ", "P", "a", "u", "s", "e", "d">>

HintLines == {L570Download, L570Paused, L570Update, L570Both, L44Downloading}

HintAppids == {570, 44}

RunLengths == {0, LogTailLines - 1, LogTailLines}

\* the lines about 44 that fill the window of characters, and one more
LongRun == MaxBytes \div (Len(L44Update) + 1) + 1

\* a log longer than the window of characters: a line, then a long run of
\* lines about 44 that say nothing of its state
LongLogs ==
    {[exists |-> TRUE, lines |-> <<l>> \o [i \in 1..LongRun |-> L44Update]] : l \in HintLines}

LogFiles ==
    {NoLog}
    \cup {[exists |-> TRUE, lines |-> head \o [i \in 1..k |-> L570Update] \o tail] :
            head \in {<<>>} \cup {<<l>> : l \in HintLines},
            k \in RunLengths,
            tail \in UNION {[1..n -> HintLines] : n \in 0..MaxLogTail}}
    \cup LongLogs

InitHint ==
    /\ logfile \in LogFiles
    /\ downloading = [sa \in Libs |-> NoDownloading]
    /\ manifests = NoManifests
    /\ dirs = {}
    /\ links = <<>>
    /\ vdf = <<>>
    /\ host = NoHost
    /\ clock = 0
    /\ interval_seconds = 0
    /\ steamapps_folders = <<>>
    /\ last_size = None
    /\ last_appid = None
    /\ last_time = 0
    /\ zero_streak = 0
    /\ minute_idx = 0
    /\ out = NoSample
    /\ call = NoCall
    /\ ret = None

\* line 335, alone
CallHint ==
    /\ call = NoCall
    /\ \E appid \in HintAppids :
         /\ ret' = detect_status_from_content_log(logfile, appid)
         /\ call' = [fn |-> "hint", appid |-> appid]
    /\ CallFrame

NextHint == CallHint

SpecHint == InitHint /\ [][NextHint]_vars

\* the lines that contain the appid of the call, oldest first
LinesOf(lines) == SelectSeq(lines, LAMBDA ln : Contains(ln, str(call.appid)))

HasPause(ln) == Contains(lower(ln), TokPause)

HasDownload(ln) == Contains(lower(ln), TokDownload)

\* the hint that the newest line with a token gives: paused if it has a
\* pause token, downloading if it has a download token and no pause token
NewestEvidence(lines) ==
    LET ev == {i \in DOMAIN lines : HasPause(lines[i]) \/ HasDownload(lines[i])}
    IN  IF ev = {} THEN "none"
        ELSE LET j == CHOOSE i \in ev : \A k \in ev : k <= i
             IN  IF HasPause(lines[j]) THEN "paused" ELSE "downloading"

\* C17 as stated: the hint is what the newest line with a token says, among
\* all the lines of the log that contain the appid; it is absent when there
\* is no such line or no log file.
C17_Original ==
    call.fn = "hint" =>
        ret = (IF ~logfile.exists THEN "none" ELSE NewestEvidence(LinesOf(logfile.lines)))

\* the last 800 of the lines that contain the appid, within the last 200000
\* characters of the file
HintWindow ==
    LET mine == LinesOf(last_file_symbols(logfile.lines, 200000))
    IN  SubSeq(mine, IF Len(mine) > 800 THEN Len(mine) - 799 ELSE 1, Len(mine))

\* C17 as amended: the hint is what the newest line with a token says, among
\* the last 800 lines that contain the appid within the last 200000
\* characters of the log; it is absent when there is no such line or no log
\* file, whatever older lines say.
C17_HintFromWindow ==
    call.fn = "hint" =>
        ret = (IF ~logfile.exists THEN "none" ELSE NewestEvidence(HintWindow))

\* 801 lines about 570, the oldest says paused, the others say nothing
C17_Witness ==
    /\ call.fn = "hint" /\ call.appid = 570
    /\ logfile.exists
    /\ Len(LinesOf(logfile.lines)) = 801
    /\ logfile.lines[1] = L570Paused
    /\ NewestEvidence(LinesOf(logfile.lines)) = "paused"
    /\ ret = "none"

----------------------------------------------------------------------------
\* More properties of detect_appid_from_downloading_dir (specification
\* SpecDetect).

\* the modification time a numeric child counts with
ChildMTime(c) == IF ChildStat(c) = None THEN 0 ELSE ChildStat(c)[1]

\* the numeric children with the greatest modification time
Latest == {c \in NumericChildren : \A c2 \in NumericChildren : ChildMTime(c2) <= ChildMTime(c)}

\* C18: when several numeric children share the greatest modification time,
\* detect returns the greatest appid among them, for every order of the
\* libraries and every order of enumeration.
C18_TieByAppid ==
    (call.fn = "detect" /\ Cardinality(Latest) >= 2) =>
        /\ \E c \in Latest : ret = Some(int(c[2]))
        /\ \A c \in Latest : int(c[2]) <= ret[1]
        /\ \A fo \in FolderOrders, o \in DetectOrders :
               detect_appid_from_downloading_dir(fo, downloading, o) = ret

C18_Witness ==
    /\ call.fn = "detect"
    /\ Latest = {<<SA_A, N570>>, <<SA_B, N44>>}
    /\ ChildStat(<<SA_A, N570>>) = Some(2)
    /\ ChildStat(<<SA_B, N44>>) = Some(2)
    /\ ret = Some(570)

----------------------------------------------------------------------------
\* The status downloading and the streak across gaps (specification Spec).

\* C19: a sample has status downloading only if the log hint of its
\* iteration was downloading and zero_streak (after the update of the
\* iteration) is below 2.
C19_DownloadingNeedsHint ==
    (out.emitted /\ out.status = "downloading")
        => (out.hint = "downloading" /\ zero_streak < 2)

C19_Witness ==
    /\ out.emitted /\ out.baseline
    /\ ~LowSpeedSample(out)
    /\ out.hint = "downloading"
    /\ zero_streak = 0
    /\ out.status = "downloading"

\* C20: an iteration without a candidate leaves zero_streak as it was; the
\* first sample of an appid that is not the last appid, made when zero_streak
\* is 1 or more (the sample emitted last, of any appid, was a low-speed one),
\* adds one to it and has status paused, whatever the log hint.
C20_StreakSpansGaps ==
    [][/\ (TickStep /\ ~out'.emitted) => zero_streak' = zero_streak
       /\ (SampleStep /\ last_appid # out'.appid /\ zero_streak >= 1)
             => (zero_streak' = zero_streak + 1 /\ out'.status = "paused")]_vars

C20_Witness ==
    /\ out.emitted /\ out.found /\ ~out.baseline
    /\ out.appid = Some(570)
    /\ last_size = Some(1220)
    /\ minute_idx = 3
    /\ zero_streak = 2
    /\ out.hint = "downloading"
    /\ out.status = "paused"

====
